---- MODULE Spec2Model ----
(***************************************************************************)
(* Model of excel_csv_processor.py (class ExcelCSVProcessor).              *)
(*                                                                         *)
(* Text is modelled as a sequence of characters (each character a one-     *)
(* token TLA+ string), so that str.strip(), the substring test `in` and    *)
(* str.join are computed rather than assumed.  Python lists are TLA+       *)
(* sequences; a Python index i is the TLA+ index i + 1.  Non-ASCII text of *)
(* the source is transliterated: the marker of the instructions column is  *)
(* the four characters da-ti-shuo-ming.                                    *)
(***************************************************************************)
EXTENDS Integers, Sequences, FiniteSets, TLC

VARIABLES
    pc,          \* position of the driver of the specification being checked
    original,    \* the grid as it was handed to fill_answer_instruction_column
    csv_data,    \* the same list object after the call (it is mutated in place)
    result,      \* the list returned by the first call
    refilled,    \* the list returned by calling the function on `result`
    df,          \* the DataFrame as read_csv returned it
    out_df,      \* the DataFrame when to_csv is called
    merge_ret,   \* what merge_columns_to_question_info returned, "none" before
    input_dir_exists,  \* self.input_dir.exists()
    xlsx_files,  \* list(self.input_dir.glob('*.xlsx')): each file is stood for by
                 \* the DataFrame that read_csv returns for its flattened table
    file_index,  \* the position of the loop `for xlsx_file in xlsx_files`, from 1
    output_dir,  \* the files of self.output_dir
    success_count,
    errors,
    summary,     \* the dict process_all_files returns
    log          \* per input file, what was done to it (history, not program state)

fillVars == <<original, csv_data, result, refilled>>
mergeVars == <<df, out_df, merge_ret>>
runVars == <<input_dir_exists, xlsx_files, file_index, output_dir, success_count,
             errors, summary, log>>
vars == <<pc, fillVars, mergeVars, runVars>>

----------------------------------------------------------------------------
(* Bounds of the checked inputs *)

\* longest row of a ragged input grid
MaxLen == 3
\* most data rows (header excluded) of a ragged input grid
MaxRaggedRows == 2
\* most data rows (header excluded) of a two-column rectangular input grid
MaxTallRows == 5
\* most cells (records times fields) of an input DataFrame of the merge stage
MaxCells == 8
\* most spreadsheet files in the input directory
MaxFiles == 2

----------------------------------------------------------------------------
(* Text *)

EMPTY == <<>>

\* "答题说明"
ANSWER_INSTRUCTION == <<"da", "ti", "shuo", "ming">>

Min(a, b) == IF a < b THEN a ELSE b

IsSpace(c) == c \in {" ", "\t", "\n"}

RECURSIVE lstrip(_)
lstrip(s) == IF s # <<>> /\ IsSpace(Head(s)) THEN lstrip(Tail(s)) ELSE s

RECURSIVE rstrip(_)
rstrip(s) ==
    IF s # <<>> /\ IsSpace(s[Len(s)]) THEN rstrip(SubSeq(s, 1, Len(s) - 1)) ELSE s

\* str.strip()
strip(s) == rstrip(lstrip(s))

\* `sub in s` for two str
Contains(sub, s) ==
    \E i \in 0..(Len(s) - Len(sub)) : SubSeq(s, i + 1, i + Len(sub)) = sub

\* `cell and str(cell).strip()` as a truth value
NonBlank(cell) == cell # <<>> /\ strip(cell) # <<>>

----------------------------------------------------------------------------
(* fill_answer_instruction_column *)

\* the loop over enumerate(header_row) with its break; -1 when nothing matches
AnswerInstructionColIndex(header_row) ==
    LET hits == {i \in 0..(Len(header_row) - 1) :
                    /\ header_row[i + 1] # <<>>
                    /\ Contains(ANSWER_INSTRUCTION, header_row[i + 1])}
    IN  IF hits = {} THEN -1
        ELSE CHOOSE i \in hits : \A j \in hits : i <= j

\* ScanOtherCols without `c_idx != answer_instruction_col_index`
ScanOtherCols_AllCols(data, col) ==
    LET rows == {r \in 0..(Len(data) - 1) :
                    \E c \in 0..(Len(data[r + 1]) - 1) : NonBlank(data[r + 1][c + 1])}
    IN  IF rows = {} THEN 0
        ELSE (CHOOSE r \in rows : \A q \in rows : q <= r) + 1

\* the nested loop that computes max_rows_other_cols, before the fallback
ScanOtherCols(data, col) ==
    LET rows == {r \in 0..(Len(data) - 1) :
                    \E c \in 0..(Len(data[r + 1]) - 1) :
                        c # col /\ NonBlank(data[r + 1][c + 1])}
    IN  IF rows = {} THEN 0
        ELSE (CHOOSE r \in rows : \A q \in rows : q <= r) + 1

\* max_rows_other_cols after `if max_rows_other_cols == 0`
MaxRowsOtherCols(data, col) ==
    IF ScanOtherCols(data, col) = 0 THEN Len(data) ELSE ScanOtherCols(data, col)

\* while len(current_row) <= answer_instruction_col_index: current_row.append("")
PadRow(row, col) ==
    IF Len(row) <= col THEN row \o [k \in 1..(col + 1 - Len(row)) |-> EMPTY] ELSE row

\* FillRow that forgets last_instruction once it has written it
FillRow_ForgetsLast(row, col, last_instruction) ==
    LET padded == PadRow(row, col)
        current_cell_value == padded[col + 1]
    IN  IF NonBlank(current_cell_value)
        THEN [row |-> padded, last |-> current_cell_value]
        ELSE IF last_instruction # <<>>
             THEN [row |-> [padded EXCEPT ![col + 1] = last_instruction],
                   last |-> EMPTY]
             ELSE [row |-> padded, last |-> last_instruction]

\* the body of the fill loop for one row: the row after it, and last_instruction
FillRow(row, col, last_instruction) ==
    LET padded == PadRow(row, col)
        current_cell_value == padded[col + 1]
    IN  IF NonBlank(current_cell_value)
        THEN [row |-> padded, last |-> current_cell_value]
        ELSE IF last_instruction # <<>>
             THEN [row |-> [padded EXCEPT ![col + 1] = last_instruction],
                   last |-> last_instruction]
             ELSE [row |-> padded, last |-> last_instruction]

\* for row_index in range(row_index, max_rows): the list after the loop
RECURSIVE FillLoop(_, _, _, _, _)
FillLoop(data, col, max_rows, row_index, last_instruction) ==
    IF row_index >= max_rows THEN data
    ELSE IF row_index < Len(data)
         THEN LET step == FillRow(data[row_index + 1], col, last_instruction)
              IN  FillLoop([data EXCEPT ![row_index + 1] = step.row], col,
                           max_rows, row_index + 1, step.last)
         ELSE FillLoop(data, col, max_rows, row_index + 1, last_instruction)

\* TruncRow that keeps the whole row
TruncRow_Keep(row, n) == row

\* row[:len(header_row)]
TruncRow(row, n) == SubSeq(row, 1, Min(Len(row), n))

\* [row[:len(header_row)] for row in csv_data[:max_rows_other_cols]]
Truncate(data, max_rows) ==
    [r \in 1..Min(Len(data), max_rows) |-> TruncRow(data[r], Len(data[1]))]

\* does the call return before touching anything (the two early returns)
ReturnsUnchanged(data) ==
    \/ Len(data) < 2
    \/ AnswerInstructionColIndex(data[1]) = -1

\* FillInPlace whose loop starts at the header row: range(0, max_rows_other_cols)
FillInPlace_FromHeader(data) ==
    IF ReturnsUnchanged(data) THEN data
    ELSE LET col == AnswerInstructionColIndex(data[1])
         IN  FillLoop(data, col, MaxRowsOtherCols(data, col), 0, EMPTY)

\* the list object csv_data after the call
FillInPlace(data) ==
    IF ReturnsUnchanged(data) THEN data
    ELSE LET col == AnswerInstructionColIndex(data[1])
         IN  FillLoop(data, col, MaxRowsOtherCols(data, col), 1, EMPTY)

\* the value the call returns
fill_answer_instruction_column(data) ==
    IF ReturnsUnchanged(data) THEN data
    ELSE LET col == AnswerInstructionColIndex(data[1])
         IN  Truncate(FillInPlace(data), MaxRowsOtherCols(data, col))

----------------------------------------------------------------------------
(* Input grids of the fill stage *)

RECURSIVE SeqsUpTo(_, _)
SeqsUpTo(S, n) ==
    IF n = 0 THEN {<<>>}
    ELSE LET shorter == SeqsUpTo(S, n - 1)
         IN  shorter \cup {Append(s, x) : s \in {t \in shorter : Len(t) = n - 1}, x \in S}

HeaderRows ==
    { <<ANSWER_INSTRUCTION>>,
      <<<<"h">>, ANSWER_INSTRUCTION>>,
      <<ANSWER_INSTRUCTION, <<"h">>>>,
      <<<<"*">> \o ANSWER_INSTRUCTION, EMPTY>>,
      <<<<"h">>, <<"g">>>> }

RaggedCells == {EMPTY, <<"X">>}

RaggedGrids ==
    { <<h>> \o body : h \in HeaderRows,
                      body \in SeqsUpTo(SeqsUpTo(RaggedCells, MaxLen), MaxRaggedRows) }

InstructionCells == {EMPTY, <<"X">>, <<"Y">>}
OtherCells == {EMPTY, <<"a">>}

TallRows == { <<o, i>> : o \in OtherCells, i \in InstructionCells }

TallGrids ==
    { <<<<<<"h">>, ANSWER_INSTRUCTION>>>> \o body : body \in SeqsUpTo(TallRows, MaxTallRows) }

\* cells with blanks in and around them
SpacedCells == {EMPTY, <<" ">>, <<" ", "X">>, <<"Y", " ">>}

SpacedGrids ==
    { <<<<<<"h">>, ANSWER_INSTRUCTION>>>> \o body :
        body \in SeqsUpTo({<<o, i>> : o \in SpacedCells, i \in SpacedCells}, MaxRaggedRows) }

InputGrids == RaggedGrids \cup TallGrids \cup SpacedGrids \cup {<<>>}

----------------------------------------------------------------------------
(* Driver of the fill stage: one call, then a second call on what it returned *)

NO_FRAME == [columns |-> <<>>, rows |-> <<>>]

MergeIdle ==
    /\ df = NO_FRAME
    /\ out_df = NO_FRAME
    /\ merge_ret = "none"

NO_SUMMARY == [success |-> 0, total |-> 0, errors |-> <<>>]

RunIdle ==
    /\ input_dir_exists = TRUE
    /\ xlsx_files = <<>>
    /\ file_index = 0
    /\ output_dir = {}
    /\ success_count = 0
    /\ errors = <<>>
    /\ summary = NO_SUMMARY
    /\ log = <<>>

FillIdle ==
    /\ original = <<>>
    /\ csv_data = <<>>
    /\ result = <<>>
    /\ refilled = <<>>

FillInit ==
    /\ pc = "start"
    /\ original \in InputGrids
    /\ csv_data = original
    /\ result = <<>>
    /\ refilled = <<>>
    /\ MergeIdle
    /\ RunIdle

Fill ==
    /\ pc = "start"
    /\ result' = fill_answer_instruction_column(csv_data)
    /\ csv_data' = FillInPlace(csv_data)
    /\ pc' = "filled"
    /\ UNCHANGED <<original, refilled, mergeVars, runVars>>

Refill ==
    /\ pc = "filled"
    /\ refilled' = fill_answer_instruction_column(result)
    /\ result' = FillInPlace(result)
    /\ pc' = "refilled"
    /\ UNCHANGED <<original, csv_data, mergeVars, runVars>>

FillNext == Fill \/ Refill

SpecFill == FillInit /\ [][FillNext]_vars

----------------------------------------------------------------------------
(* Properties of the fill stage *)

HasInstructionColumn(g) == Len(g) >= 1 /\ AnswerInstructionColIndex(g[1]) # -1

\* the cell at Python index c of a row, an absent cell reading as ""
CellAt(row, c) == IF c < Len(row) THEN row[c + 1] ELSE EMPTY

\* some cell of row r (Python index) outside column col is non-blank
OtherNonBlankIn(g, r, col) ==
    \E c \in 0..(Len(g[r + 1]) - 1) : c # col /\ strip(g[r + 1][c + 1]) # <<>>

NoRowLongerThanHeader(g) == \A r \in 1..Len(g) : Len(g[r]) <= Len(g[1])

Rectangular(g) == \A r \in 1..Len(g) : Len(g[r]) = Len(g[1])

\* C1 (as claimed): applying the fill stage to its own output returns that
\* output again, for every input grid
C1_Idempotent == [][Refill => refilled' = result]_vars

\* C1 (amended): applying the fill stage to its own output returns that output
\* again, for every input grid none of whose rows is longer than the header row
C1_IdempotentNoLongRows ==
    [][(Refill /\ NoRowLongerThanHeader(original)) => refilled' = result]_vars

\* a grid with a short row has had a blank instructions cell filled, and the
\* second call has returned
C1_Witness ==
    /\ pc = "refilled"
    /\ HasInstructionColumn(original)
    /\ NoRowLongerThanHeader(original)
    /\ ~Rectangular(original)
    /\ refilled = fill_answer_instruction_column(original)
    /\ \E r \in 2..Len(refilled) :
          /\ ~NonBlank(CellAt(original[r], AnswerInstructionColIndex(original[1])))
          /\ NonBlank(CellAt(refilled[r], AnswerInstructionColIndex(original[1])))

\* C2 (as claimed): if no cell outside the instructions column is non-blank in
\* any row with index greater than k, the returned grid has at most k+1 rows
C2_RowBound ==
    (pc = "filled" /\ HasInstructionColumn(original)) =>
        LET col == AnswerInstructionColIndex(original[1])
        IN  \A k \in 0..Len(original) :
                (\A r \in (k + 1)..(Len(original) - 1) : ~OtherNonBlankIn(original, r, col))
                    => Len(result) <= k + 1

\* C2 (amended): if some cell outside the instructions column is non-blank, and
\* none is in any row with index greater than k, the returned grid has at most
\* k+1 rows; if no cell outside the instructions column is non-blank anywhere,
\* the returned grid has every row of the input
C2_RowBoundOrFallback ==
    (pc = "filled" /\ HasInstructionColumn(original)) =>
        LET col == AnswerInstructionColIndex(original[1])
            some == \E r \in 0..(Len(original) - 1) : OtherNonBlankIn(original, r, col)
        IN  /\ some =>
                \A k \in 0..Len(original) :
                    (\A r \in (k + 1)..(Len(original) - 1) :
                        ~OtherNonBlankIn(original, r, col)) => Len(result) <= k + 1
            /\ ~some => Len(result) = Len(original)

\* rows whose only content is in the instructions column have been cut off
C2_Witness ==
    /\ pc = "filled"
    /\ HasInstructionColumn(original)
    /\ Len(original) >= 4
    /\ Len(result) = 2
    /\ \E r \in 2..(Len(original) - 1) :
          NonBlank(CellAt(original[r + 1], AnswerInstructionColIndex(original[1])))

\* C3 (as claimed), on the grids that reach the truncation: every row of the
\* returned grid has exactly as many cells as its header row
C3_Rectangular ==
    (pc = "filled" /\ HasInstructionColumn(original) /\ Len(original) >= 2)
        => Rectangular(result)

\* C3 (amended): a rectangular input gives a rectangular result; and when the
\* grid has an instructions column and at least two rows, every returned row has
\* at most as many cells as the header row, and exactly as many if the input row
\* had at least as many (a shorter row is not padded to the header's length)
C3_RectangularUpToShortRows ==
    pc = "filled" =>
        /\ Rectangular(original) => Rectangular(result)
        /\ (HasInstructionColumn(original) /\ Len(original) >= 2) =>
              \A r \in 1..Len(result) :
                  /\ Len(result[r]) <= Len(original[1])
                  /\ Len(original[r]) >= Len(original[1])
                        => Len(result[r]) = Len(original[1])

\* a row longer than the header has been cut to the header's length
C3_Witness ==
    /\ pc = "filled"
    /\ HasInstructionColumn(original)
    /\ Len(result) >= 3
    /\ Rectangular(result)
    /\ \E r \in 2..Len(result) : Len(original[r]) > Len(original[1])

\* the instructions cells (Python rows 1..i) that were non-blank before the call
FilledAbove(g, i, col) == {j \in 1..i : NonBlank(CellAt(g[j + 1], col))}

\* what the forward fill should leave in the instructions cell of row i
ExpectedInstruction(g, i, col) ==
    IF FilledAbove(g, i, col) = {} THEN CellAt(g[i + 1], col)
    ELSE LET j == CHOOSE j \in FilledAbove(g, i, col) :
                      \A q \in FilledAbove(g, i, col) : q <= j
         IN  CellAt(g[j + 1], col)

----------------------------------------------------------------------------
(* merge_columns_to_question_info: the DataFrame part *)

\* the missing value pandas gives an empty field; it is no text
NaN == <<"NaN">>

pd_notna(v) == v # NaN

\* str(v) of a cell of the DataFrame
str(v) == IF v = NaN THEN <<"n", "a", "n">> ELSE v

\* "材料内容"
MATERIAL == <<"cai", "liao", "nei", "rong">>
\* "*题目类型"
QUESTION_TYPE == <<"*", "ti", "mu", "lei", "xing">>
\* "*题干"
STEM == <<"*", "ti", "gan">>
\* "*正确答案"
CORRECT_ANSWER == <<"*", "zheng", "que", "da", "an">>
\* "题目信息"
QUESTION_INFO == <<"ti", "mu", "xin", "xi">>

required_columns == <<MATERIAL, QUESTION_TYPE, STEM, CORRECT_ANSWER>>

\* chr(n) for the capital letters
chr(n) ==
    <<"A", "B", "C", "D", "E", "F", "G", "H", "I", "J", "K", "L", "M",
      "N", "O", "P", "Q", "R", "S", "T", "U", "V", "W", "X", "Y", "Z">>[n - 64]

\* [f'选项{chr(65+i)}' for i in range(11)]
option_columns == [k \in 1..11 |-> <<"xuan", "xiang", chr(65 + (k - 1))>>]

\* `col in df.columns`
InColumns(col, columns) == \E c \in 1..Len(columns) : columns[c] = col

\* row[col]
RowValue(columns, row, col) ==
    row[CHOOSE c \in 1..Len(columns) : columns[c] = col]

\* [col for col in required_columns if col not in df.columns]
missing_columns(columns) ==
    SelectSeq(required_columns, LAMBDA col : ~InColumns(col, columns))

\* pd.notna(row[col]) and str(row[col]).strip(), for a column that exists
HasText(columns, row, col) ==
    /\ pd_notna(RowValue(columns, row, col))
    /\ strip(str(RowValue(columns, row, col))) # <<>>

\* f"<label>：\n{str(row[col]).strip()}"
Labelled(label, columns, row, col) ==
    label \o <<":", "\n">> \o strip(str(RowValue(columns, row, col)))

\* sep.join(parts)
RECURSIVE Join(_, _)
Join(sep, parts) ==
    IF parts = <<>> THEN <<>>
    ELSE IF Len(parts) = 1 THEN parts[1]
    ELSE parts[1] \o sep \o Join(sep, Tail(parts))

\* the loop over option_columns from its k-th element on, appending to `options`
RECURSIVE OptionsFrom(_, _, _, _)
OptionsFrom(columns, row, k, options) ==
    IF k > Len(option_columns) THEN options
    ELSE LET option_col == option_columns[k]
             option_letter == option_col[Len(option_col)]
         IN  IF InColumns(option_col, columns) /\ HasText(columns, row, option_col)
             THEN OptionsFrom(columns, row, k + 1,
                      Append(options, <<option_letter, ".", " ">>
                                      \o strip(str(RowValue(columns, row, option_col)))))
             ELSE OptionsFrom(columns, row, k + 1, options)

\* info_parts with the instructions section put before the material content
info_parts_InstructionFirst(columns, row) ==
    LET options == OptionsFrom(columns, row, 1, <<>>)
    IN  (IF InColumns(ANSWER_INSTRUCTION, columns)
            /\ HasText(columns, row, ANSWER_INSTRUCTION)
         THEN <<Labelled(ANSWER_INSTRUCTION, columns, row, ANSWER_INSTRUCTION)>>
         ELSE <<>>)
        \o (IF HasText(columns, row, MATERIAL)
            THEN <<Labelled(MATERIAL, columns, row, MATERIAL)>> ELSE <<>>)
        \o (IF HasText(columns, row, QUESTION_TYPE)
            THEN <<Labelled(<<"ti", "mu", "lei", "xing">>, columns, row, QUESTION_TYPE)>>
            ELSE <<>>)
        \o (IF HasText(columns, row, STEM)
            THEN <<Labelled(<<"ti", "gan">>, columns, row, STEM)>> ELSE <<>>)
        \o (IF HasText(columns, row, CORRECT_ANSWER)
            THEN <<Labelled(<<"zheng", "que", "da", "an">>, columns, row, CORRECT_ANSWER)>>
            ELSE <<>>)
        \o (IF options # <<>>
            THEN <<<<"xuan", "xiang", ":", "\n">> \o Join(<<"\n">>, options)>>
            ELSE <<>>)

\* info_parts at the end of one pass of the loop over df.iterrows()
info_parts(columns, row) ==
    LET options == OptionsFrom(columns, row, 1, <<>>)
    IN  (IF HasText(columns, row, MATERIAL)
         THEN <<Labelled(MATERIAL, columns, row, MATERIAL)>> ELSE <<>>)
        \o (IF InColumns(ANSWER_INSTRUCTION, columns)
               /\ HasText(columns, row, ANSWER_INSTRUCTION)
            THEN <<Labelled(ANSWER_INSTRUCTION, columns, row, ANSWER_INSTRUCTION)>>
            ELSE <<>>)
        \o (IF HasText(columns, row, QUESTION_TYPE)
            THEN <<Labelled(<<"ti", "mu", "lei", "xing">>, columns, row, QUESTION_TYPE)>>
            ELSE <<>>)
        \o (IF HasText(columns, row, STEM)
            THEN <<Labelled(<<"ti", "gan">>, columns, row, STEM)>> ELSE <<>>)
        \o (IF HasText(columns, row, CORRECT_ANSWER)
            THEN <<Labelled(<<"zheng", "que", "da", "an">>, columns, row, CORRECT_ANSWER)>>
            ELSE <<>>)
        \o (IF options # <<>>
            THEN <<<<"xuan", "xiang", ":", "\n">> \o Join(<<"\n">>, options)>>
            ELSE <<>>)

\* "\n\n".join(info_parts) if info_parts else ""
question_info(columns, row) ==
    IF info_parts(columns, row) # <<>>
    THEN Join(<<"\n", "\n">>, info_parts(columns, row))
    ELSE EMPTY

\* question_info_list after the loop over df.iterrows()
question_info_list(frame) ==
    [r \in 1..Len(frame.rows) |-> question_info(frame.columns, frame.rows[r])]

\* df[col] = values: a column of that name is overwritten where it stands, a new
\* one is added at the end
SetColumn(frame, col, values) ==
    IF InColumns(col, frame.columns)
    THEN LET c == CHOOSE c \in 1..Len(frame.columns) : frame.columns[c] = col
         IN  [columns |-> frame.columns,
              rows |-> [r \in 1..Len(frame.rows) |->
                           [frame.rows[r] EXCEPT ![c] = values[r]]]]
    ELSE [columns |-> Append(frame.columns, col),
          rows |-> [r \in 1..Len(frame.rows) |-> Append(frame.rows[r], values[r])]]

\* the DataFrame that merge_columns_to_question_info writes
MergedFrame(frame) == SetColumn(frame, QUESTION_INFO, question_info_list(frame))

----------------------------------------------------------------------------
(* Input DataFrames of the merge stage *)

\* header rows as read_csv returns them: the names are distinct
Schemas ==
    { <<MATERIAL, ANSWER_INSTRUCTION, QUESTION_TYPE, STEM, CORRECT_ANSWER,
        option_columns[1], option_columns[2], option_columns[3]>>,
      <<STEM, option_columns[3], MATERIAL, QUESTION_INFO, CORRECT_ANSWER,
        QUESTION_TYPE, option_columns[1]>>,
      <<MATERIAL, QUESTION_TYPE, STEM, CORRECT_ANSWER>>,
      <<MATERIAL, QUESTION_TYPE, STEM, option_columns[11], ANSWER_INSTRUCTION>>,
      <<QUESTION_TYPE, STEM, CORRECT_ANSWER, MATERIAL, option_columns[11],
        <<"xuan", "xiang", "L">>>> }

\* the values a cell of column c may hold: nothing, blanks, or a text of its own
\* between blanks
CellValues(c) ==
    {NaN, <<" ">>,
     <<" ", <<"v1", "v2", "v3", "v4", "v5", "v6", "v7", "v8", "v9">>[c], " ">>}

RECURSIVE RecordsOfWidth(_)
RecordsOfWidth(n) ==
    IF n = 0 THEN {<<>>}
    ELSE {Append(r, v) : r \in RecordsOfWidth(n - 1), v \in CellValues(n)}

DataFrames ==
    UNION { { [columns |-> columns, rows |-> rows] :
                rows \in SeqsUpTo(RecordsOfWidth(Len(columns)), MaxCells \div Len(columns)) }
            : columns \in Schemas }

----------------------------------------------------------------------------
(* Driver of the merge stage: one call on a DataFrame that was read *)

MergeInit ==
    /\ pc = "read"
    /\ df \in DataFrames
    /\ out_df = NO_FRAME
    /\ merge_ret = "none"
    /\ FillIdle
    /\ RunIdle

\* lines 199-202: a required column is missing
MergeSkipped ==
    /\ pc = "read"
    /\ missing_columns(df.columns) # <<>>
    /\ merge_ret' = "False"
    /\ pc' = "returned"
    /\ UNCHANGED <<df, out_df, fillVars, runVars>>

\* lines 204-255: the new column is built and the DataFrame written
MergeWritten ==
    /\ pc = "read"
    /\ missing_columns(df.columns) = <<>>
    /\ out_df' = MergedFrame(df)
    /\ merge_ret' = "True"
    /\ pc' = "returned"
    /\ UNCHANGED <<df, fillVars, runVars>>

MergeNext == MergeSkipped \/ MergeWritten

SpecMerge == MergeInit /\ [][MergeNext]_vars

----------------------------------------------------------------------------
(* Properties of the merge stage *)

\* the field is there and holds a text with a character that is no blank
Qualifies(columns, row, col) ==
    /\ InColumns(col, columns)
    /\ RowValue(columns, row, col) # NaN
    /\ \E k \in 1..Len(RowValue(columns, row, col)) :
          ~IsSpace(RowValue(columns, row, col)[k])

\* a text from its first to its last character that is no blank
Trimmed(v) ==
    LET solid == {k \in 1..Len(v) : ~IsSpace(v[k])}
    IN  IF solid = {} THEN <<>>
        ELSE SubSeq(v, CHOOSE k \in solid : \A q \in solid : k <= q,
                       CHOOSE k \in solid : \A q \in solid : q <= k)

\* the labelled fields in the order claimed: label, then field
SectionOrder ==
    << <<MATERIAL, MATERIAL>>,
       <<ANSWER_INSTRUCTION, ANSWER_INSTRUCTION>>,
       <<<<"ti", "mu", "lei", "xing">>, QUESTION_TYPE>>,
       <<<<"ti", "gan">>, STEM>>,
       <<<<"zheng", "que", "da", "an">>, CORRECT_ANSWER>> >>

\* parts with sep between each two neighbours
RECURSIVE Glued(_, _)
Glued(parts, sep) ==
    IF parts = <<>> THEN <<>>
    ELSE IF Len(parts) = 1 THEN parts[1]
    ELSE Glued(SubSeq(parts, 1, Len(parts) - 1), sep) \o sep \o parts[Len(parts)]

ExpectedOptionLines(columns, row) ==
    LET kept == SelectSeq(option_columns, LAMBDA col : Qualifies(columns, row, col))
    IN  [k \in 1..Len(kept) |->
            <<kept[k][3], ".", " ">> \o Trimmed(RowValue(columns, row, kept[k]))]

ExpectedSections(columns, row) ==
    LET kept == SelectSeq(SectionOrder, LAMBDA f : Qualifies(columns, row, f[2]))
        fields == [k \in 1..Len(kept) |->
                      kept[k][1] \o <<":", "\n">>
                        \o Trimmed(RowValue(columns, row, kept[k][2]))]
        lines == ExpectedOptionLines(columns, row)
    IN  IF lines = <<>> THEN fields
        ELSE Append(fields, <<"xuan", "xiang", ":", "\n">> \o Glued(lines, <<"\n">>))

\* C8: every record's question-info value is its qualifying sections, in the
\* order material, instructions, type, stem, answer, options, with two line
\* breaks between neighbours; the options section lists the qualifying option
\* columns in letter order as "letter. value"; with no qualifying section the
\* value is the empty string, and the record still has the field
C8_SectionOrdering ==
    (pc = "returned" /\ merge_ret = "True") =>
        /\ InColumns(QUESTION_INFO, out_df.columns)
        /\ Len(out_df.rows) = Len(df.rows)
        /\ \A r \in 1..Len(df.rows) :
              /\ Len(out_df.rows[r]) = Len(out_df.columns)
              /\ RowValue(out_df.columns, out_df.rows[r], QUESTION_INFO)
                    = Glued(ExpectedSections(df.columns, df.rows[r]), <<"\n", "\n">>)
              /\ ExpectedSections(df.columns, df.rows[r]) = <<>>
                    => RowValue(out_df.columns, out_df.rows[r], QUESTION_INFO) = <<>>

\* all five fields and the options A and C are filled in, B is blank: the block
\* has the six sections in order, and "A. v6" and "C. v8" under the options
C8_Witness ==
    /\ pc = "returned"
    /\ merge_ret = "True"
    /\ df.columns = <<MATERIAL, ANSWER_INSTRUCTION, QUESTION_TYPE, STEM, CORRECT_ANSWER,
                      option_columns[1], option_columns[2], option_columns[3]>>
    /\ df.rows = << << <<" ", "v1", " ">>, <<" ", "v2", " ">>, <<" ", "v3", " ">>,
                       <<" ", "v4", " ">>, <<" ", "v5", " ">>, <<" ", "v6", " ">>,
                       <<" ">>, <<" ", "v8", " ">> >> >>
    /\ out_df.rows[1][9] =
          <<"cai", "liao", "nei", "rong", ":", "\n", "v1", "\n", "\n",
            "da", "ti", "shuo", "ming", ":", "\n", "v2", "\n", "\n",
            "ti", "mu", "lei", "xing", ":", "\n", "v3", "\n", "\n",
            "ti", "gan", ":", "\n", "v4", "\n", "\n",
            "zheng", "que", "da", "an", ":", "\n", "v5", "\n", "\n",
            "xuan", "xiang", ":", "\n", "A", ".", " ", "v6", "\n", "C", ".", " ", "v8">>

\* C9: when the four required headers are there, the output has the input's
\* fields in their order with their values, then one new last field 题目信息,
\* and the same records in the same order
C9_StrictlyAdditive ==
    (pc = "returned" /\ merge_ret = "True") =>
        /\ out_df.columns = Append(df.columns, QUESTION_INFO)
        /\ Len(out_df.rows) = Len(df.rows)
        /\ \A r \in 1..Len(df.rows) :
              /\ Len(out_df.rows[r]) = Len(df.columns) + 1
              /\ \A c \in 1..Len(df.columns) : out_df.rows[r][c] = df.rows[r][c]

----------------------------------------------------------------------------
(* process_all_files *)

\* self.output_dir / f"temp_{xlsx_file.stem}.csv", for the k-th input file
temp_csv_path(k) == [kind |-> "temp", stem |-> k]

\* self.output_dir / f"{xlsx_file.stem}_processed.csv"
final_csv_path(k) == [kind |-> "processed", stem |-> k]

\* the rename target named <stem>_processed.csv
FallbackPath_Processed(k) == [kind |-> "processed", stem |-> k]

\* self.output_dir / f"{xlsx_file.stem}.csv", the target of the rename
FallbackPath(k) == [kind |-> "plain", stem |-> k]

\* Path.exists()
Exists(dir, path) == \E f \in dir : f.path = path

\* the directory after a file was opened for writing at `path` and `frame`
\* written to it, to the end or not
WriteFile(dir, path, frame, complete) ==
    {f \in dir : f.path # path}
        \cup {[path |-> path, frame |-> frame, complete |-> complete]}

\* the directory after Path.unlink()
Unlink(dir, path) == {f \in dir : f.path # path}

\* a rename that leaves the source in place
Rename_KeepsSource(dir, src, dst) ==
    {f \in dir : f.path # dst}
        \cup {[f EXCEPT !.path = dst] : f \in {g \in dir : g.path = src}}

\* the directory after Path.rename() went through
Rename(dir, src, dst) ==
    {f \in dir : f.path # src /\ f.path # dst}
        \cup {[f EXCEPT !.path = dst] : f \in {g \in dir : g.path = src}}

NEW_LOG == [visits |-> 0, convert |-> "none", merge |-> "none", finish |-> "none",
            counted |-> FALSE]

\* an entry of the list `errors`: the stage that reported it, and the file
ErrorEntry(stage, k) == [stage |-> stage, file |-> k]

RunFrames == {[columns |-> columns, rows |-> <<>>] : columns \in Schemas}

RunInit ==
    /\ pc = "start"
    /\ input_dir_exists \in BOOLEAN
    /\ xlsx_files \in SeqsUpTo(RunFrames, MaxFiles)
    /\ ~input_dir_exists => xlsx_files = <<>>
    /\ file_index = 0
    /\ output_dir = {}
    /\ success_count = 0
    /\ errors = <<>>
    /\ summary = NO_SUMMARY
    /\ log = [k \in 1..Len(xlsx_files) |-> NEW_LOG]
    /\ FillIdle
    /\ MergeIdle

\* lines 277-279
StartNoInputDir ==
    /\ pc = "start"
    /\ ~input_dir_exists
    /\ summary' = [success |-> 0, total |-> 0, errors |-> <<ErrorEntry("no_input_dir", 0)>>]
    /\ pc' = "done"
    /\ UNCHANGED <<fillVars, mergeVars, input_dir_exists, xlsx_files, file_index,
                   output_dir, success_count, errors, log>>

\* lines 282-286
StartNoFiles ==
    /\ pc = "start"
    /\ input_dir_exists
    /\ xlsx_files = <<>>
    /\ summary' = [success |-> 0, total |-> 0, errors |-> <<ErrorEntry("no_files", 0)>>]
    /\ pc' = "done"
    /\ UNCHANGED <<fillVars, mergeVars, input_dir_exists, xlsx_files, file_index,
                   output_dir, success_count, errors, log>>

\* lines 290-294
StartLoop ==
    /\ pc = "start"
    /\ input_dir_exists
    /\ xlsx_files # <<>>
    /\ success_count' = 0
    /\ errors' = <<>>
    /\ file_index' = 1
    /\ pc' = "convert"
    /\ UNCHANGED <<fillVars, mergeVars, input_dir_exists, xlsx_files, output_dir,
                   summary, log>>

\* lines 301-303, convert_xlsx_to_csv raising before line 169 has created the
\* file: it returns False, the loop records the error and continues
ConvertFailsBeforeWrite ==
    /\ pc = "convert"
    /\ file_index <= Len(xlsx_files)
    /\ errors' = Append(errors, ErrorEntry("convert", file_index))
    /\ log' = [log EXCEPT ![file_index].visits = @ + 1,
                          ![file_index].convert = "failed"]
    /\ file_index' = file_index + 1
    /\ UNCHANGED <<pc, fillVars, mergeVars, input_dir_exists, xlsx_files, output_dir,
                   success_count, summary>>

\* lines 301-303, convert_xlsx_to_csv raising inside the `with open(...)` of
\* lines 169-171: the temporary file exists, not written to its end
ConvertFailsWriting ==
    /\ pc = "convert"
    /\ file_index <= Len(xlsx_files)
    /\ output_dir' = WriteFile(output_dir, temp_csv_path(file_index),
                               xlsx_files[file_index], FALSE)
    /\ errors' = Append(errors, ErrorEntry("convert", file_index))
    /\ log' = [log EXCEPT ![file_index].visits = @ + 1,
                          ![file_index].convert = "failed_writing"]
    /\ file_index' = file_index + 1
    /\ UNCHANGED <<pc, fillVars, mergeVars, input_dir_exists, xlsx_files,
                   success_count, summary>>

\* line 301, convert_xlsx_to_csv returning True
ConvertSucceeds ==
    /\ pc = "convert"
    /\ file_index <= Len(xlsx_files)
    /\ output_dir' = WriteFile(output_dir, temp_csv_path(file_index),
                               xlsx_files[file_index], TRUE)
    /\ log' = [log EXCEPT ![file_index].visits = @ + 1,
                          ![file_index].convert = "ok"]
    /\ pc' = "merge"
    /\ UNCHANGED <<fillVars, mergeVars, input_dir_exists, xlsx_files, file_index,
                   success_count, errors, summary>>

\* line 308 with line 195 raising: lines 257-259 return False
RunMergeReadFails ==
    /\ pc = "merge"
    /\ merge_ret' = "False"
    /\ log' = [log EXCEPT ![file_index].merge = "raised_reading"]
    /\ pc' = "finish"
    /\ UNCHANGED <<fillVars, df, out_df, input_dir_exists, xlsx_files, file_index,
                   output_dir, success_count, errors, summary>>

\* line 308 with lines 199-202 returning False
RunMergeMissingColumns ==
    /\ pc = "merge"
    /\ \E f \in output_dir :
          /\ f.path = temp_csv_path(file_index)
          /\ df' = f.frame
          /\ missing_columns(f.frame.columns) # <<>>
    /\ merge_ret' = "False"
    /\ log' = [log EXCEPT ![file_index].merge = "missing_columns"]
    /\ pc' = "finish"
    /\ UNCHANGED <<fillVars, out_df, input_dir_exists, xlsx_files, file_index,
                   output_dir, success_count, errors, summary>>

\* line 308 with line 252 raising, before or after it has created the output
\* file: lines 257-259 return False
RunMergeWriteFails ==
    /\ pc = "merge"
    /\ \E f \in output_dir :
          /\ f.path = temp_csv_path(file_index)
          /\ df' = f.frame
          /\ missing_columns(f.frame.columns) = <<>>
          /\ out_df' = MergedFrame(f.frame)
          /\ \E created \in BOOLEAN :
                output_dir' = IF created
                              THEN WriteFile(output_dir, final_csv_path(file_index),
                                             MergedFrame(f.frame), FALSE)
                              ELSE output_dir
    /\ merge_ret' = "False"
    /\ log' = [log EXCEPT ![file_index].merge = "raised_writing"]
    /\ pc' = "finish"
    /\ UNCHANGED <<fillVars, input_dir_exists, xlsx_files, file_index,
                   success_count, errors, summary>>

\* line 308 with line 255 returning True
RunMergeSucceeds ==
    /\ pc = "merge"
    /\ \E f \in output_dir :
          /\ f.path = temp_csv_path(file_index)
          /\ df' = f.frame
          /\ missing_columns(f.frame.columns) = <<>>
          /\ out_df' = MergedFrame(f.frame)
          /\ output_dir' = WriteFile(output_dir, final_csv_path(file_index),
                                     MergedFrame(f.frame), TRUE)
    /\ merge_ret' = "True"
    /\ log' = [log EXCEPT ![file_index].merge = "ok"]
    /\ pc' = "finish"
    /\ UNCHANGED <<fillVars, input_dir_exists, xlsx_files, file_index,
                   success_count, errors, summary>>

\* lines 308-310 and 317-324: the merge returned True; the temporary file is
\* deleted, or unlink raises and lines 321-324 record it
FinishMerged ==
    /\ pc = "finish"
    /\ merge_ret = "True"
    /\ success_count' = success_count + 1
    /\ \E unlink_raises \in BOOLEAN :
          IF Exists(output_dir, temp_csv_path(file_index)) /\ unlink_raises
          THEN /\ errors' = Append(errors, ErrorEntry("exception", file_index))
               /\ output_dir' = output_dir
               /\ log' = [log EXCEPT ![file_index].counted = TRUE,
                                     ![file_index].finish = "unlink_raised"]
          ELSE /\ errors' = errors
               /\ output_dir' = Unlink(output_dir, temp_csv_path(file_index))
               /\ log' = [log EXCEPT ![file_index].counted = TRUE,
                                     ![file_index].finish = "ok"]
    /\ file_index' = file_index + 1
    /\ pc' = "convert"
    /\ UNCHANGED <<fillVars, mergeVars, input_dir_exists, xlsx_files, summary>>

\* lines 311-324: the merge returned False; the temporary file is renamed to
\* <stem>.csv and the file counted, or rename raises and lines 321-324 record it
FinishFallback ==
    /\ pc = "finish"
    /\ merge_ret = "False"
    /\ \E rename_raises \in BOOLEAN :
          IF rename_raises
          THEN /\ errors' = Append(errors, ErrorEntry("exception", file_index))
               /\ UNCHANGED <<output_dir, success_count>>
               /\ log' = [log EXCEPT ![file_index].finish = "rename_raised"]
          ELSE /\ output_dir' = Rename(output_dir, temp_csv_path(file_index),
                                       FallbackPath(file_index))
               /\ success_count' = success_count + 1
               /\ errors' = errors
               /\ log' = [log EXCEPT ![file_index].counted = TRUE,
                                     ![file_index].finish = "ok"]
    /\ file_index' = file_index + 1
    /\ pc' = "convert"
    /\ UNCHANGED <<fillVars, mergeVars, input_dir_exists, xlsx_files, summary>>

\* lines 326-338: the loop is over
Return ==
    /\ pc = "convert"
    /\ file_index > Len(xlsx_files)
    /\ summary' = [success |-> success_count, total |-> Len(xlsx_files),
                   errors |-> errors]
    /\ pc' = "done"
    /\ UNCHANGED <<fillVars, mergeVars, input_dir_exists, xlsx_files, file_index,
                   output_dir, success_count, errors, log>>

RunNext ==
    \/ StartNoInputDir \/ StartNoFiles \/ StartLoop
    \/ ConvertFailsBeforeWrite \/ ConvertFailsWriting \/ ConvertSucceeds
    \/ RunMergeReadFails \/ RunMergeMissingColumns \/ RunMergeWriteFails
    \/ RunMergeSucceeds
    \/ FinishMerged \/ FinishFallback
    \/ Return

SpecRun == RunInit /\ [][RunNext]_vars

----------------------------------------------------------------------------
(* Properties of process_all_files *)

Files == 1..Len(xlsx_files)

\* the entries of `errors` about the k-th input file
ErrorsFor(k) == Cardinality({e \in 1..Len(errors) : errors[e].file = k})

\* the iteration of the k-th input file is over
Finished(k) == log[k].finish # "none"

\* the flattened table of the k-th input file is in the output directory as
\* <stem>.csv
KeptAsPlainCsv(k) ==
    \E f \in output_dir :
        /\ f.path = [kind |-> "plain", stem |-> k]
        /\ f.frame = xlsx_files[k]
        /\ f.complete

MergeRaised(k) == log[k].merge \in {"raised_reading", "raised_writing"}

\* C5 (as claimed): for a file whose table lacks a required header, the merge
\* reports failure and writes no output, and process_all_files leaves the
\* flattened table as <stem>.csv, creates no <stem>_processed.csv, and counts
\* the file as succeeded and not as an error
C5_MissingColumnsFallback ==
    \A k \in Files :
        log[k].merge = "missing_columns" =>
            /\ (pc = "finish" /\ file_index = k) => merge_ret = "False"
            /\ ~Exists(output_dir, final_csv_path(k))
            /\ Finished(k) =>
                  /\ KeptAsPlainCsv(k)
                  /\ log[k].counted
                  /\ ErrorsFor(k) = 0

\* C5 (amended): for a file whose table lacks a required header, the merge
\* reports failure and writes no output; if the rename of the temporary file
\* goes through, the flattened table is left as <stem>.csv and the file is
\* counted as succeeded and not as an error; if the rename raises, the file
\* has one entry in errors, is not counted as succeeded, and nothing is left
\* as <stem>.csv; in both cases no <stem>_processed.csv is created
C5_MissingColumnsFallbackUnlessRenameRaises ==
    \A k \in Files :
        log[k].merge = "missing_columns" =>
            /\ (pc = "finish" /\ file_index = k) => merge_ret = "False"
            /\ ~Exists(output_dir, final_csv_path(k))
            /\ log[k].finish = "ok" =>
                  /\ KeptAsPlainCsv(k)
                  /\ log[k].counted
                  /\ ErrorsFor(k) = 0
            /\ log[k].finish = "rename_raised" =>
                  /\ ~Exists(output_dir, [kind |-> "plain", stem |-> k])
                  /\ ~log[k].counted
                  /\ ErrorsFor(k) = 1

\* the run is over, and a file that lacked a required header was kept as
\* <stem>.csv and counted
C5_Witness ==
    /\ pc = "done"
    /\ \E k \in Files :
          /\ log[k].merge = "missing_columns"
          /\ log[k].finish = "ok"
          /\ KeptAsPlainCsv(k)
          /\ summary.success >= 1

\* C6 (as claimed): when the merge stage raises for a file, process_all_files
\* records an entry for it in errors, does not count it in success, does not
\* rename the temporary file to <stem>.csv, and goes on to the next file
C6_MergeExceptionIsError ==
    \A k \in Files :
        (MergeRaised(k) /\ Finished(k)) =>
            /\ ErrorsFor(k) >= 1
            /\ ~log[k].counted
            /\ ~Exists(output_dir, FallbackPath(k))
            /\ file_index > k

\* C6 (amended): when the merge stage raises for a file, the merge returns
\* False and process_all_files treats the file as it treats one that lacks a
\* required header: if the rename goes through, the temporary file has become
\* <stem>.csv, the file is counted in success and has no entry in errors; if
\* the rename raises, the file has one entry in errors, is not counted and is
\* not renamed; in both cases the loop goes on to the next file
C6_MergeExceptionFallsBack ==
    \A k \in Files :
        MergeRaised(k) =>
            /\ (pc = "finish" /\ file_index = k) => merge_ret = "False"
            /\ log[k].finish = "ok" =>
                  /\ KeptAsPlainCsv(k)
                  /\ ~Exists(output_dir, temp_csv_path(k))
                  /\ log[k].counted
                  /\ ErrorsFor(k) = 0
            /\ log[k].finish = "rename_raised" =>
                  /\ ~Exists(output_dir, FallbackPath(k))
                  /\ ~log[k].counted
                  /\ ErrorsFor(k) = 1
            /\ Finished(k) => file_index > k

\* the run is over; the merge raised for the first of two files, which was
\* kept as <stem>.csv and counted, and the second file was attempted
C6_Witness ==
    /\ pc = "done"
    /\ Len(xlsx_files) = 2
    /\ MergeRaised(1)
    /\ log[1].finish = "ok"
    /\ KeptAsPlainCsv(1)
    /\ log[1].counted
    /\ log[2].visits = 1

\* C7: when process_all_files returns, no temp_<stem>.csv of any input file is
\* in the output directory, whatever happened to the file; a file that went
\* through both stages has its <stem>_processed.csv
C7_NoTempLeft ==
    pc = "done" =>
        \A k \in Files :
            /\ ~Exists(output_dir, temp_csv_path(k))
            /\ (log[k].merge = "ok" /\ log[k].finish = "ok") =>
                  Exists(output_dir, final_csv_path(k))

\* C10: in a run over n >= 1 files the loop attempts every file once, and the
\* summary has total = n and counts every file once, in success or as one entry
\* of errors, so success + len(errors) = n and success <= total
C10_RunAccounting ==
    (pc = "done" /\ Len(xlsx_files) >= 1) =>
        /\ summary.total = Len(xlsx_files)
        /\ \A k \in Files :
              /\ log[k].visits = 1
              /\ \/ log[k].counted /\ ErrorsFor(k) = 0
                 \/ ~log[k].counted /\ ErrorsFor(k) = 1
        /\ summary.success + Len(summary.errors) = Len(xlsx_files)
        /\ summary.success <= summary.total

====
